---- MODULE Spec2Model ----
(***************************************************************************)
(* Consultation request/response lifecycle of the healthcare assistant.    *)
(*                                                                         *)
(*   src/healthcare_agent_gui.py          HealthcareAssistantGUI           *)
(*   src/healthcare_agent_interactive.py  the command-line main loop       *)
(*   src/animation_utils.py               LoadingAnimation                 *)
(*                                                                         *)
(* The GUI has one UI thread (the Tk event loop, which runs the button     *)
(* commands and the callbacks scheduled with root.after) and one daemon    *)
(* thread per accepted request running execute_consultation.  The steps of *)
(* the daemon thread are cut at its accesses to shared state:              *)
(*   579-647  read specialist_var and the clock, look up agent_configs     *)
(*   650-693  build the delegate objects and call crew.kickoff()           *)
(*   696-715 / 722-751  format the outcome, append the history entry       *)
(*   718 / 754  root.after(0, display_result, outcome)                     *)
(*                                                                         *)
(* Failures modelled: the delegate (any of LLM, Agent, Task, Crew,         *)
(* kickoff raising inside the try block) and the rendering inside          *)
(* display_result: its try block and, after a raise there, the configure   *)
(* call of its handler (line 771).  Tk calls made outside those places are *)
(* taken to succeed, as they do while the main loop is running.            *)
(*                                                                         *)
(* A messagebox is modal: while it is open the window takes no input, but  *)
(* the event loop keeps running the callbacks scheduled with root.after,   *)
(* and the daemon thread keeps running.  The handler that opened it        *)
(* returns when the user dismisses it.                                     *)
(*                                                                         *)
(* Texts are sequences of one-character strings where the code slices or   *)
(* strips them (the query), and plain strings where it only copies them.   *)
(*                                                                         *)
(* Specifications:                                                         *)
(*   Spec, FairSpec  either program as the user starts and drives it       *)
(*   SpecLookup      the same, and with any name handed to the lookups of  *)
(*                   agent_configs                                         *)
(*   SpecPreview     the GUI with queries of several lengths typed         *)
(*   SpecTemplate    the GUI from the return of crew.kickoff(), for        *)
(*                   several returned texts                                *)
(*   SpecHistory     update_history_display called on any log              *)
(*   SpecAnimation   one LoadingAnimation under any sequence of start(),   *)
(*                   stop() and firings of its timer                       *)
(***************************************************************************)
EXTENDS Naturals, Sequences, FiniteSets

VARIABLES
    program,               \* which script runs: "gui" or "cli"
    api_key,               \* whether GOOGLE_API_KEY is set in the environment
    \* ---- HealthcareAssistantGUI ----
    demo_mode,             \* self.demo_mode
    is_processing,         \* self.is_processing
    consultation_history,  \* self.consultation_history
    status_indicator,      \* text of self.status_indicator, without the bullet
    output_text,           \* content of self.output_text, a sequence of segments
    history_text,          \* content of self.history_text
    query_input,           \* content of self.query_input
    specialist_var,        \* self.specialist_var
    threads,               \* the daemon threads now alive, in start order
    after_queue,           \* callbacks scheduled with root.after(0, ...)
    messagebox,            \* title of the modal messagebox now open, "" if none
    clock,                 \* the wall clock, in reads of time.strftime so far
    \* ---- healthcare_agent_interactive.py ----
    cli,                   \* the locals of main() and where it stands
    \* ---- src/animation_utils.py ----
    loading                \* a LoadingAnimation and its pending timer callbacks

gui_vars == <<demo_mode, is_processing, consultation_history, status_indicator,
              output_text, history_text, query_input, specialist_var, threads,
              after_queue, messagebox, clock>>

vars == <<program, api_key, gui_vars, cli, loading>>

\* ------------------------------------------------------------------ bounds

\* accepted requests per run of the GUI
MaxRequests == 2

\* rounds of the command-line loop
MaxRounds == 2

\* non-blank lines the user enters for one query on the command line
MaxLines == 2

\* timer callbacks of one LoadingAnimation pending at once
MaxPending == 2

\* entries of the log handed to update_history_display on its own
MaxLog == 3

\* ------------------------------------------------------------------- texts

Rep(c, n) == [i \in 1..n |-> c]

Take(s, n) == SubSeq(s, 1, IF Len(s) < n THEN Len(s) ELSE n)

\* reversed(s)
Reverse(s) == [i \in 1..Len(s) |-> s[Len(s) + 1 - i]]

\* the characters str.strip() removes: the ASCII white space (space, \t, \n,
\* \r, \f, \v and the separators 0x1c-0x1f) and NEL, the no-break space and
\* the ogham space mark.  The white space from U+2000 on (U+2000-U+200A,
\* U+2028, U+2029, U+202F, U+205F, U+3000) cannot be written in a string of
\* this module and is in no text the model handles.
IsSpace(c) ==
    c \in {" ", "\t", "\n", "\r", "\f", "", "", "", "", "",
           "", " ", " "}

\* str.strip(): from the first to the last character that is no white space
Strip(s) ==
    LET solid == {i \in 1..Len(s) : ~IsSpace(s[i])} IN
    IF solid = {} THEN <<>>
    ELSE SubSeq(s, CHOOSE i \in solid : \A j \in solid : i <= j,
                   CHOOSE i \in solid : \A j \in solid : j <= i)

\* "Describe your symptoms or health question in detail..."
placeholder ==
    <<"D","e","s","c","r","i","b","e"," ","y","o","u","r"," ",
      "s","y","m","p","t","o","m","s"," ","o","r"," ",
      "h","e","a","l","t","h"," ","q","u","e","s","t","i","o","n"," ",
      "i","n"," ","d","e","t","a","i","l",".",".",".">>

\* query[:100]
PreviewLen == 100

Ellipsis == <<".", ".", ".">>

\* what the user may type into the query box: blanks only, a short query
\* with blanks around it, a query longer than the preview
LongQuery == Rep("x", PreviewLen + 1)

Queries == { <<" ">>, <<" ">> \o LongQuery \o <<"\n">> }

\* the values of the specialist combo box, in order
specialists ==
    << "Medical Advisor", "Symptom Analyzer", "Treatment Recommender",
       "Nutrition Specialist", "Mental Health Counselor", "Fitness Coach",
       "Disease Educator", "Preventive Medicine Expert",
       "Emergency Response Advisor" >>

\* the values the user picks in the combo box: the default and one other
Selectable == { specialists[1], specialists[4] }

\* str.upper() on the combo box values
Upper(s) ==
    CASE s = "Medical Advisor" -> "MEDICAL ADVISOR"
      [] s = "Symptom Analyzer" -> "SYMPTOM ANALYZER"
      [] s = "Treatment Recommender" -> "TREATMENT RECOMMENDER"
      [] s = "Nutrition Specialist" -> "NUTRITION SPECIALIST"
      [] s = "Mental Health Counselor" -> "MENTAL HEALTH COUNSELOR"
      [] s = "Fitness Coach" -> "FITNESS COACH"
      [] s = "Disease Educator" -> "DISEASE EDUCATOR"
      [] s = "Preventive Medicine Expert" -> "PREVENTIVE MEDICINE EXPERT"
      [] s = "Emergency Response Advisor" -> "EMERGENCY RESPONSE ADVISOR"
      [] s = "Cardiologist" -> "CARDIOLOGIST"
      [] OTHER -> s

\* the keys of agent_configs in execute_consultation, lines 583-645: the nine
\* values of the combo box
GuiRegistry == { specialists[i] : i \in 1..Len(specialists) }

GuiGoal(name) ==
    CASE name = "Medical Advisor" ->
           "Provide accurate medical information and comprehensive guidance"
      [] name = "Symptom Analyzer" ->
           "Analyze symptoms and suggest possible conditions"
      [] name = "Treatment Recommender" ->
           "Suggest evidence-based treatment options"
      [] name = "Nutrition Specialist" ->
           "Provide dietary guidance and nutritional advice"
      [] name = "Mental Health Counselor" ->
           "Provide mental health support and coping strategies"
      [] name = "Fitness Coach" ->
           "Provide exercise guidance and fitness recommendations"
      [] name = "Disease Educator" ->
           "Educate about diseases, prevention, and management"
      [] name = "Preventive Medicine Expert" ->
           "Provide prevention strategies and wellness recommendations"
      [] name = "Emergency Response Advisor" ->
           "Provide emergency guidance and critical response information"

\* agent_configs of execute_consultation, lines 583-645; each entry also
\* holds a backstory, which goes wherever the goal goes
agent_configs ==
    [ name \in GuiRegistry |-> [ role |-> name, goal |-> GuiGoal(name) ] ]

\* a lookup that passes an unknown name on instead of taking the default
ConfigOf_NoDefault(specialist) ==
    IF specialist \in DOMAIN agent_configs THEN agent_configs[specialist]
    ELSE [ role |-> specialist, goal |-> "" ]

\* agent_configs.get(specialist, agent_configs["Medical Advisor"]), line 647
ConfigOf(specialist) ==
    IF specialist \in DOMAIN agent_configs THEN agent_configs[specialist]
    ELSE agent_configs["Medical Advisor"]

\* the keys of agent_configs in consult_healthcare_agent, lines 87-134: the
\* seven roles of the menu
CliRegistry == { specialists[i] : i \in 1..7 }

CliGoal(name) ==
    CASE name = "Medical Advisor" ->
           "Provide accurate medical information and guidance"
      [] name = "Symptom Analyzer" ->
           "Analyze symptoms and suggest possible conditions"
      [] name = "Treatment Recommender" ->
           "Suggest evidence-based treatment options and lifestyle changes"
      [] name = "Nutrition Specialist" ->
           "Provide dietary guidance and nutritional advice"
      [] name = "Mental Health Counselor" ->
           "Provide mental health support and coping strategies"
      [] name = "Fitness Coach" ->
           "Provide exercise guidance and fitness recommendations"
      [] name = "Disease Educator" ->
           "Educate about diseases, prevention, and management"

\* agent_configs of consult_healthcare_agent, lines 87-134 (goal and
\* backstory, no role)
cli_agent_configs == [ name \in CliRegistry |-> [ goal |-> CliGoal(name) ] ]

\* agent_configs.get(specialist, agent_configs["Medical Advisor"]),
\* healthcare_agent_interactive.py line 136
CliConfigOf(specialist) ==
    IF specialist \in DOMAIN cli_agent_configs
    THEN cli_agent_configs[specialist]
    ELSE cli_agent_configs["Medical Advisor"]

\* names handed to the two lookups directly, past the combo box and the
\* menu: one that neither registry has, one that only the GUI has
LookupNames == { "Cardiologist", "Emergency Response Advisor" }

\* time.strftime("%Y-%m-%d %H:%M:%S") when the clock reads n
Strftime(n) ==
    CASE n = 0 -> "2025-01-01 10:00:00"
      [] n = 1 -> "2025-01-01 10:00:01"
      [] n = 2 -> "2025-01-01 10:00:02"
      [] n = 3 -> "2025-01-01 10:00:03"
      [] OTHER -> "2025-01-01 10:00:59"

\* what crew.kickoff() may return, and str(e) of what the delegate may raise
Results == { "Eat low-glycemic foods." }
Causes == { "timeout" }

\* ---------------------------------------------------------- display texts

Segment(part, text) == [part |-> part, text |-> text]

\* the text put in the output box at start-up (healthcare_agent_gui.py:331)
WelcomeText ==
    << Segment("welcome", "Enter your health query and click 'Get Guidance'") >>

\* the text shown while a request is in flight (healthcare_agent_gui.py:564)
AnalyzingText ==
    << Segment("progress", "AI specialist is analyzing your query...") >>

DisclaimerBlock ==
    Segment("disclaimer", "MEDICAL DISCLAIMER: This guidance is informational only")

SampleGuidance ==
    Segment("body", "SAMPLE GUIDANCE: rest, ice, compression, elevation (RICE)")

\* formatted_result with the disclaimer put before the delegate's text
FormatSuccess_FooterFirst(specialist, timestamp, result) ==
    << Segment("header", Upper(specialist)),
       Segment("date", timestamp),
       DisclaimerBlock,
       Segment("body", result) >>

\* formatted_result, lines 696-711
FormatSuccess(specialist, timestamp, result) ==
    << Segment("header", Upper(specialist)),
       Segment("date", timestamp),
       Segment("body", result),
       DisclaimerBlock >>

\* FormatFallback without the cause: the note ends at "failed with error:"
FormatFallback_NoCause(specialist, timestamp, cause) ==
    << Segment("header", Upper(specialist)),
       Segment("header_suffix", "(Demo Response)"),
       Segment("date", timestamp),
       SampleGuidance,
       Segment("note", "This is a simulated message. The real AI consultation failed with error:") >>

\* simulated_result, lines 725-747
FormatFallback(specialist, timestamp, cause) ==
    << Segment("header", Upper(specialist)),
       Segment("header_suffix", "(Demo Response)"),
       Segment("date", timestamp),
       SampleGuidance,
       Segment("note", "This is a simulated message. The real AI consultation failed with error:"),
       Segment("cause", cause) >>

\* a history entry whose "..." marks a preview that was cut
HistoryEntry_EllipsisWhenCut(specialist, timestamp, query) ==
    [ timestamp |-> timestamp, specialist |-> specialist, marker |-> "",
      preview |-> IF Len(query) > PreviewLen
                  THEN Take(query, PreviewLen) \o Ellipsis ELSE query ]

\* history_entry of the success path, line 714
HistoryEntry(specialist, timestamp, query) ==
    [ timestamp |-> timestamp, specialist |-> specialist, marker |-> "",
      preview |-> Take(query, PreviewLen) \o Ellipsis ]

\* history_entry of the fallback path, line 750
FallbackHistoryEntry(specialist, timestamp, query) ==
    [ timestamp |-> timestamp, specialist |-> specialist,
      marker |-> "(demo fallback)",
      preview |-> Take(query, PreviewLen) \o Ellipsis ]

\* update_history_display that inserts the entries in the order of the log
HistoryView_InsertionOrder(history) ==
    IF history # <<>>
    THEN [ head |-> "YOUR CONSULTATION HISTORY", entries |-> history ]
    ELSE [ head |-> "No consultations yet.", entries |-> <<>> ]

\* what update_history_display leaves in history_text for a given log
HistoryView(history) ==
    IF history # <<>>
    THEN [ head |-> "YOUR CONSULTATION HISTORY", entries |-> Reverse(history) ]
    ELSE [ head |-> "No consultations yet.", entries |-> <<>> ]

\* history_text after update_history_display has raised part-way: still the
\* old content (787-788), emptied (788-792), or the header and the first k
\* entries (792-798)
PartialHistoryViews(old, history) ==
    LET full == HistoryView(history) IN
    {old, [head |-> "", entries |-> <<>>]}
      \cup { [head |-> full.head, entries |-> SubSeq(full.entries, 1, k)] :
                k \in 0..Len(full.entries) }

\* ------------------------------------------------------------ GUI: start

NoOutcome == <<>>

\* threading.Thread(target=self.execute_consultation, args=(query,)), line 572.
\* Only the query is passed to the thread; `selected` keeps, until the thread
\* reads the combo box itself, what the combo box held when the request was
\* accepted, and `kickoffs` counts the calls of crew.kickoff().  The thread's own locals
\* are specialist, timestamp, config, the result or exception (ok, text) and
\* the outcome text.
NoConfig == [ role |-> "", goal |-> "" ]

NewThread(query) ==
    [ pc |-> "start", query |-> query, selected |-> specialist_var,
      specialist |-> "", timestamp |-> "", config |-> NoConfig,
      ok |-> FALSE, text |-> "", kickoffs |-> 0, outcome |-> NoOutcome ]

\* __init__, lines 74-87, and the widgets' initial contents set by setup_ui;
\* the demo-mode warning of line 77 has been dismissed when __init__ returns
InitGUI ==
    /\ demo_mode = ~api_key
    /\ messagebox = ""
    /\ is_processing = FALSE
    /\ consultation_history = <<>>
    /\ status_indicator = "Ready"
    /\ output_text = WelcomeText
    /\ history_text = HistoryView(<<>>)
    /\ query_input = placeholder
    /\ specialist_var = "Medical Advisor"
    /\ threads = <<>>
    /\ after_queue = <<>>
    /\ clock = 0

\* the window takes the user's input: the GUI runs and no messagebox is open
Interactive == program = "gui" /\ messagebox = ""

\* ------------------------------------------------- GUI: the user's edits

\* the user replaces the content of the query box
TypeQuery ==
    /\ Interactive
    /\ \E q \in Queries : query_input' = q
    /\ UNCHANGED <<program, api_key, loading, cli, demo_mode, is_processing, consultation_history,
                   status_indicator, output_text, history_text, specialist_var,
                   threads, after_queue, messagebox, clock>>

\* the user picks a value of the read-only combo box
SelectSpecialist ==
    /\ Interactive
    /\ \E s \in Selectable : specialist_var' = s
    /\ UNCHANGED <<program, api_key, loading, cli, demo_mode, is_processing, consultation_history,
                   status_indicator, output_text, history_text, query_input,
                   threads, after_queue, messagebox, clock>>

\* <FocusIn> on the query box, lines 515-519
_clear_placeholder ==
    /\ Interactive
    /\ query_input' = IF query_input = placeholder THEN <<>> ELSE query_input
    /\ UNCHANGED <<program, api_key, loading, cli, demo_mode, is_processing, consultation_history,
                   status_indicator, output_text, history_text, specialist_var,
                   threads, after_queue, messagebox, clock>>

\* <FocusOut> on the query box, lines 521-525: insert("1.0", placeholder)
\* puts the placeholder in front of what is there
_add_placeholder ==
    /\ Interactive
    /\ query_input' = IF Strip(query_input) = <<>>
                      THEN placeholder \o query_input ELSE query_input
    /\ UNCHANGED <<program, api_key, loading, cli, demo_mode, is_processing, consultation_history,
                   status_indicator, output_text, history_text, specialist_var,
                   threads, after_queue, messagebox, clock>>

\* clear_all that also empties the log
clear_all_WipesHistory ==
    /\ Interactive
    /\ query_input' = placeholder
    /\ output_text' = <<>>
    /\ status_indicator' = "Ready"
    /\ consultation_history' = <<>>
    /\ UNCHANGED <<program, api_key, loading, cli, demo_mode, is_processing,
                   history_text, specialist_var, threads, after_queue,
                   messagebox, clock>>

\* clear_all that leaves the status label as it is
clear_all_KeepsStatus ==
    /\ Interactive
    /\ query_input' = placeholder
    /\ output_text' = <<>>
    /\ UNCHANGED <<program, api_key, loading, cli, demo_mode, is_processing,
                   consultation_history, status_indicator, history_text,
                   specialist_var, threads, after_queue, messagebox, clock>>

\* clear_all that also gives up the request in flight
clear_all_Cancels ==
    /\ Interactive
    /\ query_input' = placeholder
    /\ output_text' = <<>>
    /\ status_indicator' = "Ready"
    /\ is_processing' = FALSE
    /\ UNCHANGED <<program, api_key, loading, cli, demo_mode, consultation_history,
                   history_text, specialist_var, threads, after_queue,
                   messagebox, clock>>

\* the Clear button, lines 527-537
clear_all ==
    /\ Interactive
    /\ query_input' = placeholder
    /\ output_text' = <<>>
    /\ status_indicator' = "Ready"
    /\ UNCHANGED <<program, api_key, loading, cli, demo_mode, is_processing, consultation_history,
                   history_text, specialist_var, threads, after_queue,
                   messagebox, clock>>

\* ------------------------------------------------ GUI: run_consultation

\* run_consultation without the is_processing guard
AlreadyProcessing_Off == FALSE

\* line 541
AlreadyProcessing == is_processing

\* run_consultation without the demo-mode guard
InDemoMode_Off == FALSE

\* line 546
InDemoMode == demo_mode

\* the check of line 557 without the placeholder
InvalidQuery_EmptyOnly(query) == query = <<>>

\* line 557
InvalidQuery(query) == query = <<>> \/ query = placeholder

\* requests accepted so far: those with an entry in the log and those whose
\* thread has not appended its entry yet
Accepted ==
    Len(consultation_history)
      + Cardinality({t \in 1..Len(threads) :
                        threads[t].pc \in {"start", "ready", "returned"}})

\* lines 561-574: the request is accepted
Dispatch(query) ==
    /\ Accepted < MaxRequests
    /\ output_text' = AnalyzingText
    /\ is_processing' = TRUE
    /\ status_indicator' = "Analyzing"
    /\ threads' = Append(threads, NewThread(query))
    /\ UNCHANGED <<program, api_key, loading, cli, demo_mode, consultation_history, history_text,
                   query_input, specialist_var, after_queue, messagebox, clock>>

\* a rejection that also resets the status label and empties the output box
Reject_Resets(title) ==
    /\ messagebox' = title
    /\ status_indicator' = "Ready"
    /\ output_text' = <<>>
    /\ UNCHANGED <<program, api_key, loading, cli, demo_mode, is_processing,
                   consultation_history, history_text, query_input,
                   specialist_var, threads, after_queue, clock>>

\* lines 542-543, 547-551, 558-559: a messagebox, then return
Reject(title) ==
    /\ messagebox' = title
    /\ UNCHANGED <<program, api_key, loading, cli, demo_mode, is_processing, consultation_history,
                   status_indicator, output_text, history_text, query_input,
                   specialist_var, threads, after_queue, clock>>

\* the Get Guidance button, lines 539-574
run_consultation ==
    /\ Interactive
    /\ IF AlreadyProcessing THEN Reject("Processing")
       ELSE IF InDemoMode THEN Reject("Demo Mode")
       ELSE LET query == Strip(query_input) IN
            IF InvalidQuery(query) THEN Reject("Input Required")
            ELSE Dispatch(query)

\* the user closes the messagebox and run_consultation returns
DismissMessagebox ==
    /\ program = "gui"
    /\ messagebox # ""
    /\ messagebox' = ""
    /\ UNCHANGED <<program, api_key, loading, cli, demo_mode, is_processing, consultation_history,
                   status_indicator, output_text, history_text, query_input,
                   specialist_var, threads, after_queue, clock>>

\* --------------------------------------------- GUI: execute_consultation

SetThread(t, r) == [threads EXCEPT ![t] = r]

\* the threads without thread t, which has returned
EndThread(t) == SubSeq(threads, 1, t - 1) \o SubSeq(threads, t + 1, Len(threads))

\* lines 579-647: the thread reads the combo box and the clock, and looks
\* the specialist up in agent_configs
bg_read(t) ==
    /\ threads[t].pc = "start"
    /\ threads' = SetThread(t, [threads[t] EXCEPT !.pc = "ready",
                                   !.selected = "",
                                   !.specialist = specialist_var,
                                   !.timestamp = Strftime(clock),
                                   !.config = ConfigOf(specialist_var)])
    /\ clock' = clock + 1
    /\ UNCHANGED <<program, api_key, loading, cli, demo_mode, is_processing, consultation_history,
                   status_indicator, output_text, history_text, query_input,
                   specialist_var, after_queue, messagebox>>

\* bg_delegate that calls crew.kickoff() a second time when the first call
\* raised
bg_delegate_Retries(t) ==
    /\ threads[t].pc = "ready"
    /\ \/ \E r \in Results :
            threads' = SetThread(t, [threads[t] EXCEPT !.pc = "returned",
                                        !.ok = TRUE, !.text = r,
                                        !.kickoffs = @ + 1])
       \/ \E r \in Results :
            threads' = SetThread(t, [threads[t] EXCEPT !.pc = "returned",
                                        !.ok = TRUE, !.text = r,
                                        !.kickoffs = @ + 2])
       \/ \E c \in Causes, reached \in BOOLEAN :
            threads' = SetThread(t, [threads[t] EXCEPT !.pc = "returned",
                                        !.ok = FALSE, !.text = c,
                                        !.kickoffs = IF reached THEN @ + 2 ELSE @])
    /\ UNCHANGED <<program, api_key, loading, cli, demo_mode, is_processing,
                   consultation_history, status_indicator, output_text,
                   history_text, query_input, specialist_var, after_queue,
                   messagebox, clock>>

\* lines 650-693: LLM, Agent, Task, Crew and crew.kickoff(); the call returns
\* a text, or kickoff (reached) or a constructor before it (not reached)
\* raises
bg_delegate(t) ==
    /\ threads[t].pc = "ready"
    /\ \/ \E r \in Results :
            threads' = SetThread(t, [threads[t] EXCEPT !.pc = "returned",
                                        !.ok = TRUE, !.text = r,
                                        !.kickoffs = @ + 1])
       \/ \E c \in Causes, reached \in BOOLEAN :
            threads' = SetThread(t, [threads[t] EXCEPT !.pc = "returned",
                                        !.ok = FALSE, !.text = c,
                                        !.kickoffs = IF reached THEN @ + 1 ELSE @])
    /\ UNCHANGED <<program, api_key, loading, cli, demo_mode, is_processing, consultation_history,
                   status_indicator, output_text, history_text, query_input,
                   specialist_var, after_queue, messagebox, clock>>

\* the outcome text the thread builds: lines 696-711 or, in the except
\* branch, lines 725-747
Outcome(th) ==
    IF th.ok THEN FormatSuccess(th.specialist, th.timestamp, th.text)
    ELSE FormatFallback(th.specialist, th.timestamp, th.text)

\* EntryOf whose except branch builds the entry of the success path
EntryOf_NeverMarked(th) ==
    HistoryEntry(th.specialist, th.timestamp, th.query)

\* the entry the thread appends: line 714 or line 750
EntryOf(th) ==
    IF th.ok THEN HistoryEntry(th.specialist, th.timestamp, th.query)
    ELSE FallbackHistoryEntry(th.specialist, th.timestamp, th.query)

\* bg_append whose except branch leaves the log alone
bg_append_NoFallbackEntry(t) ==
    /\ threads[t].pc = "returned"
    /\ threads' = SetThread(t, [threads[t] EXCEPT !.pc = "appended",
                                   !.outcome = Outcome(threads[t])])
    /\ consultation_history' =
         IF threads[t].ok
         THEN Append(consultation_history, EntryOf(threads[t]))
         ELSE consultation_history
    /\ UNCHANGED <<program, api_key, loading, cli, demo_mode, is_processing,
                   status_indicator, output_text, history_text, query_input,
                   specialist_var, after_queue, messagebox, clock>>

\* bg_append whose except branch reports the failure on the status label
bg_append_FailureStatus(t) ==
    /\ threads[t].pc = "returned"
    /\ threads' = SetThread(t, [threads[t] EXCEPT !.pc = "appended",
                                   !.outcome = Outcome(threads[t])])
    /\ consultation_history' = Append(consultation_history, EntryOf(threads[t]))
    /\ status_indicator' = IF threads[t].ok THEN status_indicator ELSE "Error"
    /\ UNCHANGED <<program, api_key, loading, cli, demo_mode, is_processing,
                   output_text, history_text, query_input, specialist_var,
                   after_queue, messagebox, clock>>

\* lines 696-715 and 722-751: format the outcome, append the history entry
bg_append(t) ==
    /\ threads[t].pc = "returned"
    /\ threads' = SetThread(t, [threads[t] EXCEPT !.pc = "appended",
                                   !.outcome = Outcome(threads[t])])
    /\ consultation_history' = Append(consultation_history, EntryOf(threads[t]))
    /\ UNCHANGED <<program, api_key, loading, cli, demo_mode, is_processing, status_indicator,
                   output_text, history_text, query_input, specialist_var,
                   after_queue, messagebox, clock>>

\* bg_after that clears is_processing from the daemon thread
bg_after_ResetsFlag(t) ==
    /\ threads[t].pc = "appended"
    /\ threads' = EndThread(t)
    /\ after_queue' = Append(after_queue, threads[t].outcome)
    /\ is_processing' = FALSE
    /\ UNCHANGED <<program, api_key, loading, cli, demo_mode, consultation_history,
                   status_indicator, output_text, history_text, query_input,
                   specialist_var, messagebox, clock>>

\* lines 718 and 754: root.after(0, self.display_result, result); the thread
\* function returns and the thread ends
bg_after(t) ==
    /\ threads[t].pc = "appended"
    /\ threads' = EndThread(t)
    /\ after_queue' = Append(after_queue, threads[t].outcome)
    /\ UNCHANGED <<program, api_key, loading, cli, demo_mode, is_processing, consultation_history,
                   status_indicator, output_text, history_text, query_input,
                   specialist_var, messagebox, clock>>

\* one step of a daemon thread, lines 576-754
execute_consultation ==
    /\ program = "gui"
    /\ \E t \in 1..Len(threads) :
         bg_read(t) \/ bg_delegate(t) \/ bg_append(t) \/ bg_after(t)

\* ---------------------------------------------------- GUI: display_result

\* where the try block of display_result may raise: nowhere, at 759-760, at
\* 761, at 762-763, at 766, or inside update_history_display (767)
RenderFaults == {"none", "configure", "insert", "see", "status", "history"}

\* display_result that never replaces the content of the output box
RenderedOutput_Stale(old, result, fault) == old

\* the output box after display_result, lines 759-763
RenderedOutput(old, result, fault) ==
    CASE fault = "configure" -> old
      [] fault = "insert" -> <<>>
      [] OTHER -> result

\* the status label after display_result, lines 766 and 771, from the label
\* `old` it found.  `again` says that the configure call of the handler
\* (771) raises too, as it does when the one of 766 raised on a broken label:
\* the label stays as the try block left it, which is Complete when the raise
\* came from update_history_display, after line 766
RenderedStatus(old, fault, again) ==
    CASE fault = "none" -> "Complete"
      [] ~again -> "Error"
      [] fault = "history" -> "Complete"
      [] OTHER -> old

\* history_text after display_result, line 767
RenderedHistory(old, history, fault) ==
    CASE fault = "none" -> {HistoryView(history)}
      [] fault = "history" -> PartialHistoryViews(old, history)
      [] OTHER -> {old}

\* the callback scheduled by the daemon thread, run by the Tk event loop,
\* lines 756-771.  When the handler raises as well the exception leaves the
\* callback after line 770; Tk reports it and the event loop goes on
display_result ==
    /\ program = "gui"
    /\ after_queue # <<>>
    /\ \E fault \in RenderFaults, again \in BOOLEAN :
         /\ fault = "none" => ~again
         /\ output_text' = RenderedOutput(output_text, Head(after_queue), fault)
         /\ is_processing' = FALSE
         /\ status_indicator' = RenderedStatus(status_indicator, fault, again)
         /\ history_text' \in
              RenderedHistory(history_text, consultation_history, fault)
    /\ after_queue' = Tail(after_queue)
    /\ UNCHANGED <<program, api_key, loading, cli, demo_mode, consultation_history, query_input,
                   specialist_var, threads, messagebox, clock>>

\* display_error, lines 773-782; no code of the repository calls it
display_error(error_msg) ==
    /\ program = "gui"
    /\ output_text' = <<Segment("error", error_msg)>>
    /\ is_processing' = FALSE
    /\ status_indicator' = "Error"
    /\ messagebox' = "Error"
    /\ UNCHANGED <<program, api_key, loading, cli, demo_mode, consultation_history, history_text,
                   query_input, specialist_var, threads, after_queue, clock>>

\* ------------------------------------------- the command-line program

\* the menu of get_healthcare_specialist, lines 29-37
MenuKeys == { <<"1">>, <<"2">>, <<"3">>, <<"4">>, <<"5">>, <<"6">>, <<"7">> }

MenuRole(key) ==
    CASE key = <<"1">> -> "Medical Advisor"
      [] key = <<"2">> -> "Symptom Analyzer"
      [] key = <<"3">> -> "Treatment Recommender"
      [] key = <<"4">> -> "Nutrition Specialist"
      [] key = <<"5">> -> "Mental Health Counselor"
      [] key = <<"6">> -> "Fitness Coach"
      [] key = <<"7">> -> "Disease Educator"

MenuDescription(key) ==
    CASE key = <<"1">> -> "General medical information and guidance"
      [] key = <<"2">> -> "Analyze symptoms and suggest possible conditions"
      [] key = <<"3">> -> "Evidence-based treatment options and lifestyle changes"
      [] key = <<"4">> -> "Dietary guidance and nutritional advice"
      [] key = <<"5">> -> "Mental health support and coping strategies"
      [] key = <<"6">> -> "Exercise guidance and fitness recommendations"
      [] key = <<"7">> -> "Disease information, prevention, and management"

\* lines 43-50: the key chosen for what the user typed
ChosenKey(typed) ==
    LET choice == Strip(typed) IN
    IF choice \in MenuKeys THEN choice ELSE <<"1">>

\* what the user may type at the three prompts
Choices == { <<"2">>, <<" ", "7", " ">>, <<"8">>, <<>> }
Lines == { <<>>, <<" ">>, <<"a">> }
Answers == { <<"y", "e", "s">>, <<" ", "Y", " ">>, <<"n", "o">>,
             <<"y", "e", "a", "h">>, <<>> }

\* str.lower() on the letters of the answers
LowerChar(c) ==
    CASE c = "Y" -> "y" [] c = "E" -> "e" [] c = "S" -> "s"
      [] c = "N" -> "n" [] c = "O" -> "o" [] OTHER -> c

Lower(s) == [i \in 1..Len(s) |-> LowerChar(s[i])]

\* ' '.join(lines), line 76
RECURSIVE Join(_)
Join(lines) ==
    IF lines = <<>> THEN <<>>
    ELSE IF Len(lines) = 1 THEN lines[1]
    ELSE lines[1] \o <<" ">> \o Join(Tail(lines))

\* the test of line 245 taking every answer that begins with a y
WantsMore_AnyY(answer) ==
    Lower(Strip(answer)) # <<>> /\ Lower(Strip(answer))[1] = "y"

\* lines 243-245
WantsMore(answer) == Lower(Strip(answer)) \in { <<"y", "e", "s">>, <<"y">> }

InitCLI ==
    cli = [ pc |-> "start", specialist |-> "", description |-> "",
            config |-> [goal |-> ""],
            lines |-> <<>>, query |-> <<>>, success |-> FALSE,
            result |-> <<>>, shown |-> <<>>, printed |-> "",
            continue_choice |-> <<>>, api_key |-> FALSE,
            rounds |-> 0, consults |-> 0, kickoffs |-> 0 ]

\* main that goes on to the menu without looking at the key
cli_main_NoKeyCheck ==
    /\ program = "cli"
    /\ cli.pc = "start"
    /\ cli' = [cli EXCEPT !.pc = "choice", !.printed = "header",
                          !.api_key = api_key]
    /\ UNCHANGED <<program, api_key, loading, gui_vars>>

\* main, lines 209-218: api_key = os.getenv("GOOGLE_API_KEY"), then the
\* error text and return, or the header
cli_main ==
    /\ program = "cli"
    /\ cli.pc = "start"
    /\ cli' = IF api_key
              THEN [cli EXCEPT !.pc = "choice", !.printed = "header",
                               !.api_key = api_key]
              ELSE [cli EXCEPT !.pc = "exit", !.printed = "no_key",
                               !.api_key = api_key]
    /\ UNCHANGED <<program, api_key, loading, gui_vars>>

\* get_healthcare_specialist, lines 24-50, then main, lines 223-224, and the
\* prompt of get_health_query, lines 54-67
cli_get_healthcare_specialist ==
    /\ program = "cli"
    /\ cli.pc = "choice"
    /\ cli.rounds < MaxRounds
    /\ \E typed \in Choices :
         cli' = [cli EXCEPT !.pc = "line",
                            !.rounds = @ + 1,
                            !.specialist = MenuRole(ChosenKey(typed)),
                            !.description = MenuDescription(ChosenKey(typed)),
                            !.printed = IF Strip(typed) \in MenuKeys
                                        THEN "selected" ELSE "invalid_choice",
                            !.lines = <<>>]
    /\ UNCHANGED <<program, api_key, loading, gui_vars>>

\* main, lines 229-231, after get_health_query has returned query
AfterQuery(query) ==
    IF Strip(query) = <<>>
    THEN [cli EXCEPT !.pc = "choice", !.query = query, !.lines = <<>>,
                     !.printed = "no_query"]
    ELSE [cli EXCEPT !.pc = "consult", !.query = query, !.lines = <<>>,
                     !.printed = "analyzing"]

\* get_health_query that returns at the first empty line, collected or not
cli_get_health_query_ReturnsAtFirstEmpty ==
    /\ program = "cli"
    /\ cli.pc = "line"
    /\ \E line \in Lines :
         IF line # <<>>
         THEN /\ Len(cli.lines) < MaxLines
              /\ cli' = [cli EXCEPT !.lines = Append(@, line)]
         ELSE cli' = AfterQuery(Join(cli.lines))
    /\ UNCHANGED <<program, api_key, loading, gui_vars>>

\* one input() of get_health_query, lines 68-76
cli_get_health_query ==
    /\ program = "cli"
    /\ cli.pc = "line"
    /\ \E line \in Lines :
         IF line # <<>>
         THEN /\ Len(cli.lines) < MaxLines
              /\ cli' = [cli EXCEPT !.lines = Append(@, line)]
         ELSE IF cli.lines # <<>>
              THEN cli' = AfterQuery(Join(cli.lines))
              ELSE cli' = cli
    /\ UNCHANGED <<program, api_key, loading, gui_vars>>

\* what display_consultation_result prints, lines 190-205
Display(success, result, specialist) ==
    IF success
    THEN << Segment("header", Upper(specialist)), Segment("title", "RESPONSE:") >>
           \o result \o << Segment("disclaimer", "DISCLAIMER: This information is for educational purposes only.") >>
    ELSE << Segment("title", "ERROR:") >> \o result

\* consult_healthcare_agent, lines 78-188, display_consultation_result and
\* the prompt of line 241
cli_consult_healthcare_agent ==
    /\ program = "cli"
    /\ cli.pc = "consult"
    /\ \/ \E r \in Results :
            LET result == << Segment("body", r) >> IN
            cli' = [cli EXCEPT !.pc = "continue", !.success = TRUE,
                               !.config = CliConfigOf(cli.specialist),
                               !.result = result,
                               !.shown = Display(TRUE, result, cli.specialist),
                               !.printed = "prompt",
                               !.consults = @ + 1, !.kickoffs = @ + 1]
       \/ \E c \in Causes, reached \in BOOLEAN :
            LET result == << Segment("error", c),
                             Segment("hint", "Please check your internet connection and API key.") >> IN
            cli' = [cli EXCEPT !.pc = "continue", !.success = FALSE,
                               !.config = CliConfigOf(cli.specialist),
                               !.result = result,
                               !.shown = Display(FALSE, result, cli.specialist),
                               !.printed = "prompt",
                               !.consults = @ + 1,
                               !.kickoffs = IF reached THEN @ + 1 ELSE @]
    /\ UNCHANGED <<program, api_key, loading, gui_vars>>

\* main, lines 241-249
cli_continue ==
    /\ program = "cli"
    /\ cli.pc = "continue"
    /\ \E answer \in Answers :
         cli' = IF WantsMore(answer)
                THEN [cli EXCEPT !.pc = "choice", !.printed = "",
                                 !.continue_choice = Lower(Strip(answer))]
                ELSE [cli EXCEPT !.pc = "exit", !.printed = "goodbye",
                                 !.continue_choice = Lower(Strip(answer))]
    /\ UNCHANGED <<program, api_key, loading, gui_vars>>

\* ------------------------------------------------- LoadingAnimation

\* __init__, lines 63-74; no callback is scheduled yet
NewLoading ==
    [ rotation |-> 0, animation_running |-> FALSE, canvas |-> <<>>,
      pending |-> 0 ]

InitLoading == loading = NewLoading

\* animate, lines 81-104, called on the object l: a stopped animation
\* returns at once; a running one turns by 10 degrees, redraws the canvas
\* and schedules animate again with canvas.after(50, self.animate)
animate(l) ==
    IF ~l.animation_running THEN l
    ELSE [l EXCEPT !.rotation = (l.rotation + 10) % 360,
                   !.canvas = <<"oval">>,
                   !.pending = @ + 1]

\* start, lines 76-79
start ==
    /\ program = "animation"
    /\ loading.pending < MaxPending
    /\ loading' = animate([loading EXCEPT !.animation_running = TRUE])
    /\ UNCHANGED <<program, api_key, gui_vars, cli>>

\* stop, lines 106-109; the callback already scheduled stays scheduled
stop ==
    /\ program = "animation"
    /\ loading' = [loading EXCEPT !.animation_running = FALSE,
                                  !.canvas = <<>>]
    /\ UNCHANGED <<program, api_key, gui_vars, cli>>

\* the Tk timer fires one callback scheduled at line 104, which runs animate
after_animate ==
    /\ program = "animation"
    /\ loading.pending > 0
    /\ loading' = animate([loading EXCEPT !.pending = @ - 1])
    /\ UNCHANGED <<program, api_key, gui_vars, cli>>

\* ------------------------------------------------------------ the system

Init ==
    /\ program \in {"gui", "cli"}
    /\ api_key \in BOOLEAN
    /\ InitGUI
    /\ InitCLI
    /\ InitLoading

NextGUI ==
    \/ TypeQuery
    \/ SelectSpecialist
    \/ _clear_placeholder
    \/ _add_placeholder
    \/ clear_all
    \/ run_consultation
    \/ DismissMessagebox
    \/ execute_consultation
    \/ display_result

NextCLI ==
    \/ cli_main
    \/ cli_get_healthcare_specialist
    \/ cli_get_health_query
    \/ cli_consult_healthcare_agent
    \/ cli_continue

Next == NextGUI \/ NextCLI

Spec == Init /\ [][Next]_vars

\* ------------------------------------------ the programs, with any input

\* the GUI with a credential, once the query box holds `typed` and the
\* variable of the combo box holds `name`
StartedGUI(typed, name) ==
    /\ program = "gui"
    /\ api_key = TRUE
    /\ demo_mode = FALSE
    /\ messagebox = ""
    /\ is_processing = FALSE
    /\ consultation_history = <<>>
    /\ status_indicator = "Ready"
    /\ output_text = WelcomeText
    /\ history_text = HistoryView(<<>>)
    /\ query_input = typed
    /\ specialist_var = name
    /\ threads = <<>>
    /\ after_queue = <<>>
    /\ clock = 0
    /\ InitCLI
    /\ InitLoading

\* "What should I eat for diabetes?"
ShortQuery ==
    <<"W","h","a","t"," ","s","h","o","u","l","d"," ","I"," ",
      "e","a","t"," ","f","o","r"," ",
      "d","i","a","b","e","t","e","s","?">>

\* what the query box may hold when the user submits: a short query, bare
\* and with blanks around it, a query of exactly the length of the preview,
\* and one that is longer
PreviewInputs ==
    { ShortQuery,
      <<" ", "\n">> \o ShortQuery \o <<" ">>,
      Rep("x", PreviewLen),
      <<" ">> \o LongQuery \o <<"\n">> }

\* the GUI with the query typed
InitPreview ==
    \E typed \in PreviewInputs, name \in Selectable : StartedGUI(typed, name)

\* a user who only submits what the query box holds and closes the
\* messageboxes
NextSubmitOnly ==
    \/ run_consultation
    \/ DismissMessagebox
    \/ execute_consultation
    \/ display_result

SpecPreview == InitPreview /\ [][NextSubmitOnly]_vars

\* what crew.kickoff() may return, seen from the template: nothing, a
\* guidance text, and a text that reads like the footer of the template
ReturnedTexts ==
    { "", "Eat low-glycemic foods.", DisclaimerBlock.text }

\* the GUI when crew.kickoff() of its first request has just returned `text`
\* (line 693): the request was accepted for `name` and the thread has read
\* the combo box and the clock
InitTemplate ==
    \E text \in ReturnedTexts, name \in Selectable :
       /\ program = "gui"
       /\ api_key = TRUE
       /\ demo_mode = FALSE
       /\ messagebox = ""
       /\ is_processing = TRUE
       /\ consultation_history = <<>>
       /\ status_indicator = "Analyzing"
       /\ output_text = AnalyzingText
       /\ history_text = HistoryView(<<>>)
       /\ query_input = <<" ">> \o LongQuery \o <<"\n">>
       /\ specialist_var = name
       /\ threads = << [ NewThread(LongQuery) EXCEPT
                           !.pc = "returned", !.selected = "",
                           !.specialist = name,
                           !.timestamp = Strftime(0),
                           !.config = ConfigOf(name),
                           !.ok = TRUE, !.text = text, !.kickoffs = 1 ] >>
       /\ after_queue = <<>>
       /\ clock = 1
       /\ InitCLI
       /\ InitLoading

SpecTemplate == InitTemplate /\ [][NextSubmitOnly]_vars

\* --------------------------- the agent_configs lookups, with any name

\* Either program as started by the user, or with a name handed to its lookup
\* directly: the GUI after self.specialist_var.set(name) for a name the combo
\* box does not offer, or main() at its call of consult_healthcare_agent
\* with `name` for specialist
InitLookup ==
    \/ Init
    \/ \E name \in LookupNames \ GuiRegistry : StartedGUI(placeholder, name)
    \/ /\ program = "cli"
       /\ api_key = TRUE
       /\ InitGUI
       /\ InitLoading
       /\ \E name \in LookupNames :
            cli = [ pc |-> "consult", specialist |-> name, description |-> "",
                    config |-> [goal |-> ""],
                    lines |-> <<>>, query |-> <<"a">>, success |-> FALSE,
                    result |-> <<>>, shown |-> <<>>, printed |-> "analyzing",
                    continue_choice |-> <<>>, api_key |-> TRUE,
                    rounds |-> 1, consults |-> 0, kickoffs |-> 0 ]

SpecLookup == InitLookup /\ [][Next]_vars

\* ------------------------------- update_history_display, called on its own

\* the logs of n entries the GUI can hold: the k-th entry is the one of the
\* k-th consultation, of either specialist, a success or a fallback
LogsOfLen(n) ==
    { [k \in 1..n |->
          IF failed[k]
          THEN FallbackHistoryEntry(chosen[k], Strftime(k - 1), LongQuery)
          ELSE HistoryEntry(chosen[k], Strftime(k - 1), LongQuery)] :
        chosen \in [1..n -> Selectable], failed \in [1..n -> BOOLEAN] }

Logs == UNION { LogsOfLen(n) : n \in 0..MaxLog }

\* the outcome text that goes with a history entry
OutcomeOfEntry(entry) ==
    IF entry.marker = ""
    THEN FormatSuccess(entry.specialist, entry.timestamp,
                       CHOOSE r \in Results : TRUE)
    ELSE FormatFallback(entry.specialist, entry.timestamp,
                        CHOOSE c \in Causes : TRUE)

\* the GUI at a call of update_history_display: the call of line 513 during
\* __init__ (the log is empty), or the call of line 767 in display_result
\* after Len(log) consultations, the last of which is being delivered: its
\* entry is in the log and not yet in the history box
InitHistory ==
    /\ program = "history"
    /\ api_key = TRUE
    /\ demo_mode = FALSE
    /\ messagebox = ""
    /\ is_processing = FALSE
    /\ consultation_history \in Logs
    /\ status_indicator =
         IF consultation_history = <<>> THEN "Ready" ELSE "Complete"
    /\ output_text =
         IF consultation_history = <<>> THEN WelcomeText
         ELSE OutcomeOfEntry(consultation_history[Len(consultation_history)])
    /\ history_text =
         IF consultation_history = <<>> THEN [head |-> "", entries |-> <<>>]
         ELSE HistoryView(SubSeq(consultation_history, 1,
                                 Len(consultation_history) - 1))
    /\ query_input = IF consultation_history = <<>> THEN placeholder
                     ELSE <<" ">> \o LongQuery \o <<"\n">>
    /\ specialist_var =
         IF consultation_history = <<>> THEN "Medical Advisor"
         ELSE consultation_history[Len(consultation_history)].specialist
    /\ threads = <<>>
    /\ after_queue = <<>>
    /\ clock = Len(consultation_history)
    /\ InitCLI
    /\ InitLoading

\* update_history_display, lines 784-798
update_history_display ==
    /\ program = "history"
    /\ history_text' = HistoryView(consultation_history)
    /\ UNCHANGED <<program, api_key, loading, cli, demo_mode, is_processing,
                   consultation_history, status_indicator, output_text,
                   query_input, specialist_var, threads, after_queue,
                   messagebox, clock>>

NextHistory == update_history_display

SpecHistory == InitHistory /\ [][NextHistory]_vars

\* the test program of animation_utils.py, lines 237-258, after
\* LoadingAnimation(root, width=100, height=100): the object is constructed
\* and nothing of the assistant runs
InitAnimation ==
    /\ program = "animation"
    /\ api_key = FALSE
    /\ InitGUI
    /\ InitCLI
    /\ InitLoading

NextAnimation ==
    \/ start
    \/ stop
    \/ after_animate

SpecAnimation == InitAnimation /\ [][NextAnimation]_vars

\* the threads are scheduled and the delegate call returns or raises; the Tk
\* event loop runs the callbacks scheduled with root.after
FairSpec ==
    /\ Spec
    /\ WF_vars(execute_consultation)
    /\ WF_vars(display_result)

\* ------------------------------------------------------------ properties

IsPrefix(s, t) == Len(s) <= Len(t) /\ SubSeq(t, 1, Len(s)) = s

\* requests accepted and not yet delivered: a live daemon thread, or an
\* outcome waiting in the event loop
InFlight == Len(threads) + Len(after_queue)

\* requests whose outcome text has been built: every thread that has read the
\* clock, except those still before line 696 / 725
Produced ==
    clock - Cardinality({t \in 1..Len(threads) :
                            threads[t].pc \in {"ready", "returned"}})

\* a step of run_consultation that shows the messagebox `title` and changes
\* nothing else of the lifecycle
RejectedWith(title) ==
    /\ messagebox' = title
    /\ UNCHANGED <<is_processing, status_indicator, output_text,
                   consultation_history, history_text, threads, after_queue,
                   query_input, specialist_var, clock>>

\* the outcome o is the fallback text and carries the cause
IsFallbackWithCause(o, cause) ==
    /\ \E i \in 1..Len(o) : o[i].part = "header_suffix"
    /\ \E i \in 1..Len(o) : o[i] = Segment("cause", cause)

\* C1: in the GUI at most one request is in flight in every reachable state:
\* never two live daemon threads, nor a live thread beside an undelivered
\* outcome.
C1_AtMostOneInFlight == InFlight <= 1

\* a second request is in flight after a first one was completed, and a
\* third submission has just been turned away
C1_Witness ==
    /\ Len(threads) = 1
    /\ Len(consultation_history) = 1
    /\ threads[1].pc = "ready"
    /\ messagebox = "Processing"

\* C2 as stated: whenever a request stops being in flight it is Succeeded
\* (status Complete) and its outcome is what the output box shows.
C2_AlwaysSucceeded ==
    [][(is_processing /\ ~is_processing')
          => (status_indicator' = "Complete" /\ after_queue # <<>>
              /\ output_text' = Head(after_queue))]_vars

\* C2 amended: an accepted submission puts the GUI in flight (is_processing,
\* status Analyzing, one thread); it stays in flight with exactly one pending
\* delivery until that delivery, which happens eventually and once, and ends
\* either Succeeded with the outcome shown, or Failed when display_result
\* raised while rendering: with status Error, or with the label left as it
\* was (Analyzing, or Ready after clear_all) when setting it raised too.
C2_EventuallyDelivered ==
    /\ [](is_processing => <>(~is_processing))
    /\ [](InFlight = IF is_processing THEN 1 ELSE 0)
    /\ [][(~is_processing /\ is_processing')
            => (status_indicator' = "Analyzing" /\ Len(threads') = 1
                /\ ~InvalidQuery(threads'[1].query))]_vars
    /\ [][(is_processing /\ ~is_processing')
            => /\ after_queue # <<>>
               /\ \/ /\ status_indicator' = "Complete"
                     /\ output_text' = Head(after_queue)
                     /\ Head(after_queue)[1].part = "header"
                  \/ status_indicator' = "Error"
                  \/ /\ status_indicator' = status_indicator
                     /\ status_indicator \in {"Analyzing", "Ready"}]_vars

\* a request was delivered as Succeeded and its outcome is shown
C2_Witness ==
    /\ ~is_processing
    /\ status_indicator = "Complete"
    /\ consultation_history # <<>>
    /\ output_text # <<>>
    /\ output_text[1].part = "header"

\* C3: run_consultation while a request is in flight shows the Processing
\* messagebox and changes nothing else: is_processing, the status label, the
\* output box, the log, the threads and the scheduled callbacks keep their
\* values, so no second thread starts and nothing is queued.
C3_RejectedWhileInFlight ==
    [][(is_processing /\ run_consultation) => RejectedWith("Processing")]_vars

\* a submission was turned away while the thread of the request in flight
\* was inside the delegate call
C3_Witness ==
    /\ is_processing
    /\ messagebox = "Processing"
    /\ Len(threads) = 1
    /\ threads[1].pc = "ready"
    /\ output_text = AnalyzingText

\* C4: a thread whose delegate invocation raised builds the fallback outcome
\* carrying str(e), and goes on to append and hand off like any other: its
\* outcome is the one scheduled for display.
C4_FallbackCarriesCause ==
    /\ [](\A t \in 1..Len(threads) :
            (threads[t].pc = "appended" /\ ~threads[t].ok)
               => IsFallbackWithCause(threads[t].outcome, threads[t].text))
    /\ [][\A t \in 1..Len(threads) :
            (threads[t].pc = "appended" /\ ~threads[t].ok
               /\ Len(threads') < Len(threads))
               => (after_queue' # <<>>
                   /\ IsFallbackWithCause(after_queue'[Len(after_queue')],
                                          threads[t].text))]_vars

\* the delegate raised and the fallback outcome waits in the event loop
C4_Witness ==
    /\ after_queue # <<>>
    /\ IsFallbackWithCause(Head(after_queue), "timeout")

\* C5: the log holds as many entries as outcomes have been produced: each
\* step that produces an outcome (success or fallback) appends exactly one
\* entry and no other step changes the length of the log.
C5_OneEntryPerOutcome ==
    /\ [](Len(consultation_history) = Produced)
    /\ [][Len(consultation_history') - Len(consultation_history)
            = Produced' - Produced]_vars

\* two outcomes were produced, a success and a fallback
C5_Witness ==
    /\ Len(consultation_history) = 2
    /\ Produced = 2
    /\ consultation_history[1].marker # consultation_history[2].marker

\* C6: in demo mode every run_consultation is turned away with the Demo Mode
\* messagebox, and the lifecycle never leaves Idle: is_processing is false,
\* no thread exists, nothing is scheduled and the log is empty.
C6_DemoModeStaysIdle ==
    /\ [](demo_mode => (/\ ~is_processing
                        /\ status_indicator = "Ready"
                        /\ threads = <<>>
                        /\ after_queue = <<>>
                        /\ consultation_history = <<>>))
    /\ [][(demo_mode /\ run_consultation) => RejectedWith("Demo Mode")]_vars

\* in demo mode a submission with a valid query was turned away
C6_Witness ==
    /\ demo_mode
    /\ messagebox = "Demo Mode"
    /\ ~InvalidQuery(Strip(query_input))

\* C7: a submission whose query is empty after trimming, or is the
\* placeholder, is turned away before dispatch.  GUI: the Input Required
\* messagebox and no other change.  CLI: main goes back to the menu without
\* calling consult_healthcare_agent, which is only ever reached with a
\* non-blank query.
C7_InvalidQueryRejected ==
    /\ [][(run_consultation /\ ~is_processing /\ ~demo_mode
             /\ (Strip(query_input) = <<>> \/ Strip(query_input) = placeholder))
            => RejectedWith("Input Required")]_vars
    /\ [][(cli.pc = "line" /\ cli'.pc # "line" /\ Strip(cli'.query) = <<>>)
            => (cli'.pc = "choice" /\ cli'.consults = cli.consults
                /\ cli'.kickoffs = cli.kickoffs)]_vars
    /\ [](cli.pc = "consult" => Strip(cli.query) # <<>>)

\* the placeholder, put back by <FocusOut> in front of a blank, was submitted
\* and turned away
C7_Witness ==
    /\ messagebox = "Input Required"
    /\ query_input = placeholder \o <<" ">>
    /\ ~is_processing
    /\ threads = <<>>

\* C8: the log is append-only: in every step the old log is a prefix of the
\* new one.
C8_AppendOnly ==
    [][IsPrefix(consultation_history, consultation_history')]_vars

\* clear_all has run on a log of two entries
C8_Witness ==
    /\ Len(consultation_history) = 2
    /\ output_text = <<>>
    /\ status_indicator = "Ready"
    /\ query_input = placeholder

\* C9: the status label turns to Error only in a step of display_result (one
\* whose rendering raised); no step of the daemon thread, a raising delegate
\* included, touches the status label.
C9_FailedOnlyFromRender ==
    /\ [][(status_indicator' = "Error" /\ status_indicator # "Error")
            => display_result]_vars
    /\ [][execute_consultation => status_indicator' = status_indicator]_vars

\* a fallback outcome was delivered and rendered: Succeeded, not Failed
C9_Witness ==
    /\ status_indicator = "Complete"
    /\ output_text # <<>>
    /\ IsFallbackWithCause(output_text, "timeout")

\* C10 as stated: no step of the daemon thread changes the log or
\* is_processing.
C10_OnlyUIThreadMutates ==
    [][execute_consultation
         => UNCHANGED <<consultation_history, is_processing>>]_vars

\* C10 amended: is_processing changes only in steps of the UI thread; the log
\* changes only in the daemon thread's own append, before it schedules the
\* hand-off; and whenever a delivery is pending (so that display_result and
\* update_history_display may read the log) no daemon thread is alive.
C10_AppendInThreadReadAfterHandoff ==
    /\ [][execute_consultation => is_processing' = is_processing]_vars
    /\ [][consultation_history' # consultation_history
            => (execute_consultation /\ threads' # threads
                /\ after_queue' = after_queue)]_vars
    /\ [](after_queue # <<>> => threads = <<>>)

\* the thread has appended its entry and has not yet called root.after
C10_Witness ==
    /\ is_processing
    /\ Len(threads) = 1
    /\ threads[1].pc = "appended"
    /\ Len(consultation_history) = 1
    /\ after_queue = <<>>

\* the display state the daemon thread could reach through self: the output
\* box, the status label, the history box, the query box and the variable of
\* the specialist combo box
DisplayState ==
    <<output_text, status_indicator, history_text, query_input, specialist_var>>

\* C11 as stated: no step of the daemon thread writes display state, and none
\* reads it: the specialist the thread works with is the one the combo box
\* held when the request was accepted, whatever the user selects afterwards.
C11_ThreadLeavesDisplayStateAlone ==
    [][execute_consultation
         => /\ UNCHANGED DisplayState
            /\ \A t \in 1..Len(threads) :
                  (threads[t].pc = "start" /\ threads'[t].pc = "ready")
                     => threads'[t].specialist = threads[t].selected]_vars

\* C12 as stated: for each accepted submission crew.kickoff() has been called
\* exactly once when the delegate invocation is over, whether it succeeded or
\* failed, in the GUI and on the command line.
C12_KickoffExactlyOnce ==
    /\ \A t \in 1..Len(threads) :
          threads[t].pc \in {"returned", "appended"} => threads[t].kickoffs = 1
    /\ cli.kickoffs = cli.consults

\* C12 amended: nothing is retried.  The delegate invocation of a request runs
\* once: a thread that has left it never enters it again, and crew.kickoff()
\* is called at most once per request: once when it returned a text (or
\* raised itself), not at all when building LLM, Agent, Task or Crew raised
\* before it.  The same on the command line, where each consultation is one
\* invocation with at most one kickoff.
C12_NoRetries ==
    /\ [](\A t \in 1..Len(threads) :
            /\ threads[t].kickoffs <= 1
            /\ threads[t].pc \in {"start", "ready"} => threads[t].kickoffs = 0
            /\ (threads[t].pc \in {"returned", "appended"} /\ threads[t].ok)
                  => threads[t].kickoffs = 1)
    /\ [][\A t \in 1..Len(threads) :
            (threads[t].pc \in {"returned", "appended"} /\ t <= Len(threads'))
               => (/\ threads'[t].pc \in {"returned", "appended"}
                   /\ threads'[t].kickoffs = threads[t].kickoffs
                   /\ threads'[t].ok = threads[t].ok
                   /\ threads'[t].text = threads[t].text)]_vars
    /\ [](cli.kickoffs <= cli.consults /\ cli.consults <= cli.rounds)
    /\ [][cli'.consults # cli.consults
            => (/\ cli.pc = "consult"
                /\ cli'.pc = "continue"
                /\ cli'.consults = cli.consults + 1
                /\ cli'.kickoffs <= cli.kickoffs + 1
                /\ cli'.success => cli'.kickoffs = cli.kickoffs + 1)]_vars

\* crew.kickoff() was called once and raised; the thread is in the except
\* branch, about to append the fallback entry
C12_Witness ==
    /\ Len(threads) = 1
    /\ threads[1].pc = "returned"
    /\ ~threads[1].ok
    /\ threads[1].kickoffs = 1

\* C13: nothing cancels a request.  While is_processing is true, every step
\* that is neither a step of the daemon thread nor the delivery (clear_all, a
\* rejected run_consultation, the edits of the query box and the combo box)
\* leaves is_processing, the thread, the scheduled delivery and the log as
\* they are; is_processing turns false only in display_result; and a
\* delivery that renders without raising shows the outcome whatever the
\* output box held before, also when clear_all emptied it in between.
C13_NoCancellation ==
    /\ [][(is_processing /\ ~execute_consultation /\ ~display_result)
            => UNCHANGED <<is_processing, threads, after_queue,
                           consultation_history>>]_vars
    /\ [][(is_processing /\ clear_all)
            => (is_processing' /\ InFlight' = 1
                /\ UNCHANGED <<threads, after_queue>>)]_vars
    /\ [][(is_processing /\ ~is_processing') => display_result]_vars
    /\ [][(display_result /\ status_indicator' = "Complete")
            => output_text' = Head(after_queue)]_vars

\* clear_all ran while the first request was in flight (nothing else puts the
\* bare placeholder back in the query box after a query was typed), and the
\* outcome was displayed all the same
C13_Witness ==
    /\ ~is_processing
    /\ Len(consultation_history) = 1
    /\ Accepted = 1
    /\ query_input = placeholder
    /\ status_indicator = "Complete"
    /\ output_text # <<>>
    /\ output_text[1].part = "header"

FallbackMarker == "(demo fallback)"

\* the outcome text o is the simulated one of the except branch
IsFallback(o) == \E i \in 1..Len(o) : o[i].part = "header_suffix"

\* the text of the first segment of o that is a `part`
PartOf(o, part) ==
    o[CHOOSE i \in 1..Len(o) :
         o[i].part = part /\ \A j \in 1..(i - 1) : o[j].part # part].text

\* the last entry of the log is the entry of outcome o: same consultation
\* date, same specialist, and marked exactly when o is the fallback text
LastEntryIsOf(o) ==
    /\ consultation_history # <<>>
    /\ LET entry == consultation_history[Len(consultation_history)] IN
          /\ entry.timestamp = PartOf(o, "date")
          /\ Upper(entry.specialist) = PartOf(o, "header")
          /\ entry.marker \in {"", FallbackMarker}
          /\ entry.marker = FallbackMarker <=> IsFallback(o)

\* C14: the entry of a request carries "(demo fallback)" exactly when the
\* outcome of that request is the fallback text, which is exactly when the
\* delegate invocation raised; a success has an unmarked entry.  The entry is
\* in the log before the outcome is rendered: from the moment the outcome is
\* handed to root.after until display_result runs, the last entry of the log
\* is the entry of that outcome.
C14_MarkerIffFallback ==
    /\ [](\A t \in 1..Len(threads) :
            threads[t].pc = "appended"
               => (/\ LastEntryIsOf(threads[t].outcome)
                   /\ IsFallback(threads[t].outcome) <=> ~threads[t].ok))
    /\ [](after_queue # <<>> => LastEntryIsOf(Head(after_queue)))
    /\ [][display_result => LastEntryIsOf(Head(after_queue))]_vars
    /\ [][Len(consultation_history') > Len(consultation_history)
            => after_queue' = after_queue]_vars

\* a success and then a fallback: the first entry is unmarked, the second is
\* marked, and the fallback outcome waits to be rendered
C14_Witness ==
    /\ Len(consultation_history) = 2
    /\ consultation_history[1].marker = ""
    /\ consultation_history[2].marker = FallbackMarker
    /\ after_queue # <<>>
    /\ IsFallback(Head(after_queue))

\* the view shows the log most recent first: under the header, the i-th entry
\* shown is the i-th entry counted from the end of the log; for an empty log
\* the view is the "No consultations yet." text
MostRecentFirst(view, log) ==
    IF log = <<>>
    THEN view = [head |-> "No consultations yet.", entries |-> <<>>]
    ELSE /\ view.head = "YOUR CONSULTATION HISTORY"
         /\ Len(view.entries) = Len(log)
         /\ view.entries[1] = log[Len(log)]
         /\ \A i \in 1..Len(log) : view.entries[i] = log[Len(log) + 1 - i]

\* C15: for every log, a call of update_history_display leaves the history
\* box showing the entries of the log most recent first, whatever it showed
\* before; the call leaves the log as it is, so that a second call in a row
\* leaves the same view.
C15_MostRecentFirst ==
    /\ [][update_history_display
            => (/\ MostRecentFirst(history_text', consultation_history)
                /\ consultation_history' = consultation_history)]_vars
    /\ [][(update_history_display
             /\ MostRecentFirst(history_text, consultation_history))
            => history_text' = history_text]_vars

\* update_history_display has run on a log of three entries, where the order
\* of the entries shows: the history box no longer lacks the newest entry
C15_Witness ==
    /\ program = "history"
    /\ Len(consultation_history) = 3
    /\ consultation_history[1].marker # consultation_history[3].marker
    /\ Len(history_text.entries) = 3
    /\ history_text.entries[1] = consultation_history[3]
    /\ history_text.entries[3] = consultation_history[1]

DefaultRole == "Medical Advisor"

\* C16: no lookup raises for an unknown name, and an unknown name gets the
\* Medical Advisor entry.  GUI: the thread always gets from its start to the
\* delegate invocation with a config; the config is the entry of its
\* specialist when agent_configs has one and the Medical Advisor entry (role
\* and goal) otherwise.  CLI: the same for the lookup of
\* consult_healthcare_agent; and a menu choice that is no key of the menu
\* yields the Medical Advisor and its description.
C16_UnknownDegradesToDefault ==
    /\ [](\A t \in 1..Len(threads) :
            threads[t].pc # "start"
               => IF threads[t].specialist \in GuiRegistry
                  THEN /\ threads[t].config.role = threads[t].specialist
                       /\ threads[t].config.goal = GuiGoal(threads[t].specialist)
                  ELSE /\ threads[t].config.role = DefaultRole
                       /\ threads[t].config.goal = GuiGoal(DefaultRole))
    /\ [][\A t \in 1..Len(threads) :
            (threads[t].pc = "start" /\ threads'[t] # threads[t])
               => threads'[t].pc = "ready"]_vars
    /\ [][cli'.consults # cli.consults
            => cli'.config.goal =
                 IF cli.specialist \in CliRegistry THEN CliGoal(cli.specialist)
                 ELSE CliGoal(DefaultRole)]_vars
    /\ [][(cli.pc = "choice" /\ cli'.pc = "line")
            => (/\ cli'.specialist \in CliRegistry
                /\ cli'.printed = "invalid_choice"
                     => (/\ cli'.specialist = DefaultRole
                         /\ cli'.description = MenuDescription(<<"1">>)))]_vars

\* the GUI thread looked up a name agent_configs does not have, got the
\* Medical Advisor entry, and the delegate invocation returned a text
C16_Witness ==
    /\ Len(threads) = 1
    /\ threads[1].pc = "returned"
    /\ threads[1].ok
    /\ threads[1].specialist \notin GuiRegistry
    /\ threads[1].config = agent_configs[DefaultRole]

\* the entry the thread t has just appended
Appended(t) ==
    /\ t <= Len(threads')
    /\ threads[t].pc = "returned"
    /\ threads'[t].pc = "appended"

NewestEntry == consultation_history'[Len(consultation_history')]

\* C17 as stated: the preview of the appended entry is the first 100
\* characters of the query and nothing else.
C17_PreviewIsPrefixOnly ==
    [][\A t \in 1..Len(threads) :
          Appended(t) => NewestEntry.preview = Take(threads[t].query, PreviewLen)]_vars

\* C17 amended: the preview of the appended entry, on the success and on the
\* fallback path, is the first 100 characters of the trimmed query (all of it
\* when it is shorter), character for character, followed by three dots,
\* whether or not the query was cut.
C17_PreviewThenEllipsis ==
    [][\A t \in 1..Len(threads) :
          Appended(t)
            => LET query == threads[t].query
                   preview == NewestEntry.preview
                   kept == IF Len(query) < PreviewLen
                           THEN Len(query) ELSE PreviewLen
               IN /\ ~IsSpace(query[1]) /\ ~IsSpace(query[Len(query)])
                  /\ Len(preview) = kept + 3
                  /\ \A i \in 1..kept : preview[i] = query[i]
                  /\ \A i \in (kept + 1)..(kept + 3) : preview[i] = "."]_vars

\* the short query was typed with blanks around it and answered: its entry
\* holds the whole trimmed query and the three dots
C17_Witness ==
    /\ consultation_history # <<>>
    /\ consultation_history[1].marker = ""
    /\ consultation_history[1].preview = ShortQuery \o <<".", ".", ".">>
    /\ query_input = <<" ", "\n">> \o ShortQuery \o <<" ">>

\* the outcome text o is the success template around `text`: the header with
\* the specialist's name in capitals, the consultation date, the text, the
\* disclaimer, in this order and nothing else
IsSuccessTemplate(o, specialist, timestamp, text) ==
    /\ Len(o) = 4
    /\ o[1].part = "header" /\ o[1].text = Upper(specialist)
    /\ o[2].part = "date" /\ o[2].text = timestamp
    /\ o[3].part = "body" /\ o[3].text = text
    /\ o[4] = DisclaimerBlock
    /\ \A i \in 1..Len(o) : o[i].part = "disclaimer" => i > 3

\* C18: whatever text crew.kickoff() returned, the outcome the thread builds
\* and hands to root.after is the success template around that very text,
\* and a delivery that renders without raising shows it unchanged.
C18_SuccessTemplate ==
    /\ [](\A t \in 1..Len(threads) :
            (threads[t].pc = "appended" /\ threads[t].ok)
               => IsSuccessTemplate(threads[t].outcome, threads[t].specialist,
                                    threads[t].timestamp, threads[t].text))
    /\ [][\A t \in 1..Len(threads) :
            (threads[t].pc = "appended" /\ threads[t].ok
               /\ Len(threads') < Len(threads))
               => (/\ after_queue' # <<>>
                   /\ IsSuccessTemplate(after_queue'[Len(after_queue')],
                                        threads[t].specialist,
                                        threads[t].timestamp,
                                        threads[t].text))]_vars
    /\ [][(display_result /\ status_indicator' = "Complete")
            => output_text' = Head(after_queue)]_vars

\* the delegate returned the words of the disclaimer; the outcome shown has
\* them as its body, between the date and the disclaimer
C18_Witness ==
    /\ status_indicator = "Complete"
    /\ Len(output_text) = 4
    /\ output_text[3] = Segment("body", DisclaimerBlock.text)
    /\ output_text[4] = DisclaimerBlock
    /\ output_text[1] = Segment("header", "NUTRITION SPECIALIST")

\* C19: clear_all when no request is in flight, whatever the status label
\* says (Complete after a delivery, Error after one that failed to render),
\* leaves the GUI idle: status Ready, the output box empty, the placeholder in
\* the query box, is_processing still false, no thread and no delivery
\* pending.  And a submission of a valid query when no request is in flight
\* (with a credential) is accepted, whatever the status label says, so also
\* after clear_all.
C19_ClearReturnsToIdle ==
    /\ [][(clear_all /\ ~is_processing)
            => (/\ status_indicator' = "Ready"
                /\ output_text' = <<>>
                /\ query_input' = placeholder
                /\ ~is_processing'
                /\ threads' = <<>>
                /\ after_queue' = <<>>)]_vars
    /\ [][(run_consultation /\ ~is_processing /\ ~demo_mode
             /\ ~InvalidQuery(Strip(query_input)))
            => (/\ is_processing'
                /\ status_indicator' = "Analyzing"
                /\ Len(threads') = 1
                /\ threads'[1].query = Strip(query_input))]_vars

\* clear_all has run after a delivery that failed to render: the entry is in
\* the log, the history box never got it, the status label reads Ready again
\* and nothing is in flight
C19_Witness ==
    /\ Len(consultation_history) = 1
    /\ history_text = HistoryView(<<>>)
    /\ ~is_processing
    /\ threads = <<>>
    /\ after_queue = <<>>
    /\ status_indicator = "Ready"
    /\ output_text = <<>>
    /\ query_input = placeholder

\* C20 as stated: on the command line a consultation whose delegate
\* invocation raised is answered like one of the GUI: what is printed holds
\* the simulated guidance and the cause, and is not an error report.
C20_CliFailureBecomesFallback ==
    (cli.pc = "continue" /\ ~cli.success)
       => /\ \E i \in 1..Len(cli.shown) : cli.shown[i] = SampleGuidance
          /\ \E i \in 1..Len(cli.shown) : cli.shown[i].part = "error"
          /\ \A i \in 1..Len(cli.shown) :
                cli.shown[i] # Segment("title", "ERROR:")

\* where the k-th of `lines` starts in their join, less one: the lengths of
\* the lines before it and one separator after each
RECURSIVE Offset(_, _)
Offset(lines, k) ==
    IF k = 1 THEN 0 ELSE Offset(lines, k - 1) + Len(lines[k - 1]) + 1

\* `query` is `lines`, in order, with a single space between neighbours
JoinedBySpaces(query, lines) ==
    /\ Len(query) = Offset(lines, Len(lines) + 1) - 1
    /\ \A k \in 1..Len(lines) :
          /\ \A i \in 1..Len(lines[k]) :
                query[Offset(lines, k) + i] = lines[k][i]
          /\ k < Len(lines) => query[Offset(lines, k + 1)] = " "

\* C21: get_health_query collects every non-empty line in input order; an
\* empty line entered while nothing is collected changes nothing and entry
\* goes on; it returns only at an empty line with at least one line
\* collected, and what it returns is the collected lines joined by single
\* spaces.
C21_QueryIsJoinedLines ==
    /\ [][(cli.pc = "line" /\ cli'.pc = "line")
            => (\/ cli'.lines = cli.lines
                \/ /\ Len(cli'.lines) = Len(cli.lines) + 1
                   /\ IsPrefix(cli.lines, cli'.lines)
                   /\ cli'.lines[Len(cli'.lines)] # <<>>)]_vars
    /\ [][(cli.pc = "line" /\ cli.lines = <<>>) => cli'.pc = "line"]_vars
    /\ [][(cli.pc = "line" /\ cli'.pc # "line")
            => (/\ cli.lines # <<>>
                /\ \A k \in 1..Len(cli.lines) : cli.lines[k] # <<>>
                /\ JoinedBySpaces(cli'.query, cli.lines))]_vars

\* two lines were entered, the second of them a single space, then an empty
\* line: the query is the first line, the separator and the space
C21_Witness ==
    /\ cli.pc = "consult"
    /\ cli.query = <<"a", " ", " ">>

\* the steps of one round of main, in order: the menu, the lines of the
\* query, the consultation with its display and the prompt, the answer
RoundOrder(from, to) ==
    \/ from = "start" /\ to \in {"choice", "exit"}
    \/ from = "choice" /\ to = "line"
    \/ from = "line" /\ to \in {"line", "consult", "choice"}
    \/ from = "consult" /\ to = "continue"
    \/ from = "continue" /\ to \in {"choice", "exit"}

\* C22: after the prompt main starts another round exactly when the answer,
\* trimmed and in lower case, is yes or y, and ends otherwise.  The steps of
\* a round follow in the order menu, query, consultation and display, prompt;
\* a consultation happens only between the query and the prompt, so there is
\* at most one per round, and what is displayed is its result.
C22_ContinueIffYes ==
    /\ [][(cli.pc = "continue" /\ cli'.pc # "continue")
            => (/\ cli'.pc = "choice"
                  <=> cli'.continue_choice \in {<<"y", "e", "s">>, <<"y">>}
                /\ cli'.pc = "exit"
                  <=> cli'.continue_choice \notin {<<"y", "e", "s">>, <<"y">>}
                /\ cli'.consults = cli.consults)]_vars
    /\ [][cli' # cli => RoundOrder(cli.pc, cli'.pc)]_vars
    /\ [](cli.consults <= cli.rounds)
    /\ [][cli'.consults # cli.consults
            => (/\ cli.pc = "consult" /\ cli'.pc = "continue"
                /\ cli'.consults = cli.consults + 1
                /\ cli'.printed = "prompt"
                /\ cli'.shown =
                     Display(cli'.success, cli'.result, cli.specialist))]_vars
    /\ [](cli.pc = "exit" => cli.printed \in {"goodbye", "no_key"})

\* the answer " Y " started a second round, in which a second consultation
\* was made
C22_Witness ==
    /\ cli.continue_choice = <<"y">>
    /\ cli.rounds = 2
    /\ cli.consults = 2
    /\ cli.pc = "continue"

\* C23: without GOOGLE_API_KEY main prints the error text and returns: it
\* never shows the menu, reads no line of a query and makes no consultation.
\* main reads the key in its first step only: its api_key is assigned there
\* and never again, and every round runs with the key read at the start.
C23_NoKeyNoPrompt ==
    /\ []((program = "cli" /\ ~api_key)
            => (/\ cli.pc \in {"start", "exit"}
                /\ cli.rounds = 0 /\ cli.consults = 0 /\ cli.kickoffs = 0
                /\ cli.specialist = "" /\ cli.lines = <<>>
                /\ cli.query = <<>> /\ cli.shown = <<>>
                /\ cli.pc = "exit" => cli.printed = "no_key"))
    /\ [][cli'.api_key # cli.api_key => cli.pc = "start"]_vars
    /\ [](cli.pc \notin {"start", "exit"} => cli.api_key)
    /\ [][cli.pc # "start" => cli'.api_key = cli.api_key]_vars

\* main has returned after the error text, having prompted for nothing
C23_Witness ==
    /\ program = "cli"
    /\ ~api_key
    /\ cli.pc = "exit"
    /\ cli.printed = "no_key"
    /\ cli.rounds = 0

\* C24 as stated: the specialist a thread works with is the one the combo box
\* held when run_consultation accepted its request, and the entry it appends
\* and the outcome it builds name that specialist.
C24_SpecialistOfAcceptance ==
    /\ [][\A t \in 1..Len(threads) :
            (threads[t].pc = "start" /\ threads'[t].pc = "ready")
               => threads'[t].specialist = threads[t].selected]_vars
    /\ [][\A t \in 1..Len(threads) :
            Appended(t)
               => (/\ NewestEntry.specialist = threads[t].specialist
                   /\ PartOf(threads'[t].outcome, "header")
                        = Upper(threads[t].specialist))]_vars

\* C25 as stated: in every state of the GUI the status label reads Analyzing
\* exactly when is_processing is true.
C25_StatusFollowsFlag ==
    program = "gui" => (status_indicator = "Analyzing" <=> is_processing)

\* C26 as stated: whenever is_processing is false the History view shows
\* exactly the entries of consultation_history, most recent first (the
\* placeholder text when the log is empty), also after a render error.
C26_HistoryViewFollowsLog ==
    (program = "gui" /\ ~is_processing)
       => MostRecentFirst(history_text, consultation_history)

\* C27 as stated: after any sequence of start(), stop() and timer firings of
\* a LoadingAnimation at most one animate callback is pending, and rotation
\* is a multiple of 10 within 0..350.
C27_OnePendingCallback ==
    program = "animation"
       => /\ loading.pending <= 1
          /\ loading.rotation \in 0..350
          /\ loading.rotation % 10 = 0

====
